---------------------------- MODULE Spec2Model ----------------------------
(***************************************************************************)
(* Phong terrain demo on WebGPU: the device/context layer (gpuUtils.js),   *)
(* the start-up routine and the frame driver (main.js), the slider         *)
(* callbacks (eventHandlers.js), the uniform packer and the interleaver.   *)
(*                                                                         *)
(* The host is a single-threaded event loop: one callback runs at a time   *)
(* and runs until it returns, throws or reaches an await.  A callback that *)
(* spans several host calls is modelled step by step with a program        *)
(* counter; the host starts another callback only when none is executing.  *)
(*                                                                         *)
(* Numbers are fixed point with Scale units per 1.0 (0.5 is 50), so that   *)
(* the arithmetic of mulMat4 and of the colour products is exact.          *)
(***************************************************************************)
EXTENDS Integers, Sequences, FiniteSets, TLC

VARIABLES
  \* the page and the display
  clientW, clientH, dpr, displayChanges,
  \* closure state of initializeWebGPU
  canvasW, canvasH, depthTexture, texAlloc, configureCount, lastResize,
  \* start-up
  pcInit, initCalls, initRafCalls, errorLog,
  \* module-level variables of main.js
  gpu, vertexBufferGPU, uniformBuffer, pipeline, bindGroup, vertexCount,
  eye, modelViewMatrix, projectionMatrix,
  frameState, labels, listeners,
  \* the frame driver and the host's callback queue
  rafPending, framePc, tick, tickLog, tickOutcome, views, renderPass, uniformData,
  submitted, uiEvents,
  \* arguments and results of the pure functions
  positionsArray, normalsArray, interleaved, packIn, packOut,
  \* generateMesh: its size and step, its loop variables, the length of
  \* meshVertices and its position
  meshIn, meshX, meshZ, meshLen, meshPc

envVars   == <<clientW, clientH, dpr, displayChanges>>
layerVars == <<canvasW, canvasH, depthTexture, texAlloc, configureCount, lastResize>>
initVars  == <<pcInit, initCalls, initRafCalls, errorLog>>
mainVars  == <<gpu, vertexBufferGPU, uniformBuffer, pipeline, bindGroup, vertexCount,
               eye, modelViewMatrix, projectionMatrix>>
uiVars    == <<frameState, labels, listeners, uiEvents>>
frameVars == <<rafPending, framePc, tick, tickLog, tickOutcome, views, renderPass,
               uniformData, submitted>>
meshVars  == <<meshIn, meshX, meshZ, meshLen, meshPc>>
pureVars  == <<positionsArray, normalsArray, interleaved, packIn, packOut, meshVars>>
vars == <<envVars, layerVars, initVars, mainVars, uiVars, frameVars, pureVars>>

\* null or undefined where an object is expected
Null == [null |-> TRUE]

\* a variable declared without a value where a vector or matrix is expected
Undefined == <<>>

\* an array argument, or the absence of one
Array(items) == [missing |-> FALSE, items |-> items]

Missing == [missing |-> TRUE, items |-> <<>>]

----------------------------------------------------------------------------
(* Bounds *)

MaxClient == 2          \* largest CSS width/height of the canvas, in CSS pixels
MaxDisplayChanges == 1  \* display-size changes in one run of the program
MaxTextures == 3        \* depth textures allocated in one run of the layer harness
MaxTicks == 2           \* frame callbacks started in one run
MaxUiEvents == 1        \* pointer-move events delivered in one run
MaxVerts == 2           \* longest position/normal sequence given to the interleaver

----------------------------------------------------------------------------
(* The display *)

\* window.devicePixelRatio in halves; 0 stands for a missing or zero ratio
DprVals == {0, 3}

ClientVals == 0..MaxClient

Max(a, b) == IF a >= b THEN a ELSE b

\* window.devicePixelRatio || 1
Dpr == IF dpr = 0 THEN 2 ELSE dpr

\* Math.floor(client * dpr), the ratio being in halves
FloorTimesDpr(client) == (client * Dpr) \div 2

displayWidth == Max(1, FloorTimesDpr(clientW))
displayHeight == Max(1, FloorTimesDpr(clientH))

\* the page is laid out anew between two callbacks
DisplayChange ==
  /\ framePc = "idle"
  /\ displayChanges < MaxDisplayChanges
  /\ \E w \in ClientVals, h \in ClientVals, d \in DprVals :
       /\ <<w, h, d>> # <<clientW, clientH, dpr>>
       /\ clientW' = w /\ clientH' = h /\ dpr' = d
  /\ displayChanges' = displayChanges + 1
  /\ UNCHANGED <<layerVars, initVars, mainVars, uiVars, frameVars, pureVars>>

----------------------------------------------------------------------------
(* Device/context layer: the closure returned by initializeWebGPU *)

resizeChanged == canvasW # displayWidth \/ canvasH # displayHeight

\* sets the backing store to the display size when they differ
resizeCanvasToDisplaySize ==
  IF resizeChanged
    THEN canvasW' = displayWidth /\ canvasH' = displayHeight
    ELSE UNCHANGED <<canvasW, canvasH>>

\* the texture device.createTexture returns inside configureContext
createdDepthTexture == [id |-> texAlloc + 1, w |-> canvasW', h |-> canvasH']

\* resize, context.configure, createTexture; the caller decides what to do
\* with the returned texture
configureContext ==
  /\ resizeCanvasToDisplaySize
  /\ configureCount' = configureCount + 1
  /\ texAlloc' = texAlloc + 1

\* onResize reconfiguring on every call
onResizeAlways ==
  /\ configureContext /\ depthTexture' = createdDepthTexture
  /\ lastResize' = <<displayWidth, displayHeight>>

onResize ==
  /\ IF resizeChanged
       THEN configureContext /\ depthTexture' = createdDepthTexture
       ELSE resizeCanvasToDisplaySize
            /\ UNCHANGED <<depthTexture, texAlloc, configureCount>>
  /\ lastResize' = <<displayWidth, displayHeight>>

\* { view, depthView }: the depth view is created from the closure's texture
getCurrentViews == [tick |-> tick, depth |-> depthTexture, w |-> canvasW, h |-> canvasH]

----------------------------------------------------------------------------
(* Numbers: fixed point, Scale units per 1.0, and one value for NaN/Infinity *)

Scale == 100

\* any non-finite float (NaN, +Infinity, -Infinity)
NaN == 0 - (2 ^ 30)

Finite(a) == a # NaN

Add(a, b) == IF Finite(a) /\ Finite(b) THEN a + b ELSE NaN

Sub(a, b) == IF Finite(a) /\ Finite(b) THEN a - b ELSE NaN

Neg(a) == IF Finite(a) THEN 0 - a ELSE NaN

\* rounds toward zero
Quot(a, b) == IF (a >= 0) = (b > 0) THEN (IF a >= 0 THEN a ELSE 0 - a) \div (IF b > 0 THEN b ELSE 0 - b)
              ELSE 0 - ((IF a >= 0 THEN a ELSE 0 - a) \div (IF b > 0 THEN b ELSE 0 - b))

Mul(a, b) == IF Finite(a) /\ Finite(b) THEN Quot(a * b, Scale) ELSE NaN

\* x / 0 is NaN or an infinity
Div(a, b) == IF Finite(a) /\ Finite(b) /\ b # 0 THEN Quot(a * Scale, b) ELSE NaN

RECURSIVE SqrtSearch(_, _, _)
SqrtSearch(n, lo, hi) ==
  IF lo >= hi THEN lo
  ELSE LET mid == (lo + hi + 1) \div 2
       IN IF mid * mid <= n THEN SqrtSearch(n, mid, hi) ELSE SqrtSearch(n, lo, mid - 1)

\* Math.sqrt of a fixed-point number (the search stays below 2^31)
Sqrt(a) ==
  IF Finite(a) /\ a >= 0
    THEN SqrtSearch(a * Scale, 0, IF a * Scale < 46340 THEN a * Scale ELSE 46340)
    ELSE NaN

----------------------------------------------------------------------------
(* The vector/matrix helpers of MV.js that packUniforms calls.  A vector   *)
(* is a sequence of numbers, a matrix a sequence of four rows.             *)

vec3(x, y, z) == <<x, y, z>>

vec4(x, y, z, w) == <<x, y, z, w>>

\* mat4(): the identity
mat4 == << <<Scale, 0, 0, 0>>, <<0, Scale, 0, 0>>, <<0, 0, Scale, 0>>, <<0, 0, 0, Scale>> >>

dot(u, v) == Add(Add(Mul(u[1], v[1]), Mul(u[2], v[2])), Mul(u[3], v[3]))

cross(u, v) ==
  << Sub(Mul(u[2], v[3]), Mul(u[3], v[2])),
     Sub(Mul(u[3], v[1]), Mul(u[1], v[3])),
     Sub(Mul(u[1], v[2]), Mul(u[2], v[1])) >>

subtract(u, v) == [i \in 1..Len(u) |-> Sub(u[i], v[i])]

negate(u) == [i \in 1..Len(u) |-> Neg(u[i])]

length(u) == Sqrt(dot(u, u))

\* divides by the length; a zero vector becomes NaN
normalize(u) == [i \in 1..Len(u) |-> Div(u[i], length(u))]

\* mult of two vectors: component by component
multVec(u, v) == [i \in 1..Len(u) |-> Mul(u[i], v[i])]

\* mult of a matrix and a vector
multMatVec(m, v) ==
  [r \in 1..4 |-> Add(Add(Mul(m[r][1], v[1]), Mul(m[r][2], v[2])),
                      Add(Mul(m[r][3], v[3]), Mul(m[r][4], v[4])))]

lookAt(e, a, u) ==
  IF e = a THEN mat4
  ELSE LET v == normalize(subtract(a, e))
           n == normalize(cross(v, u))
           uu == normalize(cross(n, v))
           vv == negate(v)
       IN << <<n[1], n[2], n[3], Neg(dot(n, e))>>,
             <<uu[1], uu[2], uu[3], Neg(dot(uu, e))>>,
             <<vv[1], vv[2], vv[3], Neg(dot(vv, e))>>,
             <<0, 0, 0, Scale>> >>

\* 1 / tan(fovy / 2) for fovy = 60 degrees, in fixed point
CotHalfFovy == 173

\* f / (width / height): zero when the height is zero and the width is not
\* (the aspect is an infinity), not finite when the width is zero
overAspect(f, width, height) ==
  IF width = 0 THEN NaN
  ELSE IF height = 0 THEN 0
  ELSE Div(f, Div(width * Scale, height * Scale))

\* aspect is width / height; near and far are fixed point
perspective(width, height, nearP, farP) ==
  LET d == farP - nearP
  IN << <<overAspect(CotHalfFovy, width, height), 0, 0, 0>>,
        <<0, CotHalfFovy, 0, 0>>,
        <<0, 0, Div(Neg(nearP + farP), d), Div(Neg(Mul(2 * nearP, farP)), d)>>,
        <<0, 0, 0 - Scale, 0>> >>

\* normalMatrix(m, true): the inverse transpose of the upper-left 3x3, which
\* for the rotation part of a camera transform is that 3x3 itself
normalMatrix(m) == [r \in 1..3 |-> [c \in 1..3 |-> m[r][c]]]

\* flatten of a matrix transposes it and lists the rows: column-major order
flattenMat(m) == [i \in 1..16 |-> m[((i - 1) % 4) + 1][((i - 1) \div 4) + 1]]

\* flatten of a vector lists its components
flattenVec(v) == v

----------------------------------------------------------------------------
(* Scene constants of main.js, in fixed point *)

near == 10

far == 10000

lightAmbient == vec4(30, 30, 30, 100)

lightDiffuse == vec4(100, 100, 100, 100)

lightSpecular == vec4(100, 100, 100, 100)

materialAmbient == vec4(10, 10, 30, 100)

materialDiffuse == vec4(20, 20, 60, 100)

materialSpecular == vec4(80, 80, 80, 100)

materialShininess == 5000

at == vec3(0, 0, 0)

up == vec3(0, Scale, 0)

\* the values the six gui-controlled variables have when the script loads
initialFrameState ==
  [camX |-> 13, camY |-> 7, camZ |-> -11, lightX |-> 2, lightY |-> 4, lightZ |-> 2]

\* a gui-controlled value (a whole number or NaN) as a fixed-point number
ToFixed(n) == IF Finite(n) THEN n * Scale ELSE NaN

----------------------------------------------------------------------------
(* packUniforms *)

\* new Float32Array(68)
uniformFloats == 68

zeroData == [i \in 1..uniformFloats |-> 0]

\* data[offset++] = v; a typed array ignores a write past its end
store(st, v) ==
  [st EXCEPT !.data = IF st.offset < Len(st.data)
                        THEN [st.data EXCEPT ![st.offset + 1] = v]
                        ELSE st.data,
             !.offset = st.offset + 1,
             !.writes = Append(st.writes, st.offset)]

\* the value of f at x, x being evaluated first
Apply(f(_), x) == CHOOSE r \in { f(y) : y \in {x} } : TRUE

\* one store per element, in order (a for loop or a forEach)
RECURSIVE storeAll(_, _)
storeAll(st, vals) ==
  IF vals = <<>> THEN st
  ELSE LET rest(next) == storeAll(next, Tail(vals))
       IN Apply(rest, store(st, Head(vals)))

\* one block of consecutive stores, remembered with its byte offset and size
packField(st, name, vals) ==
  LET after == storeAll(st, vals)
  IN [after EXCEPT !.fields = Append(st.fields,
        [name |-> name, offset |-> st.offset * 4, size |-> (after.offset - st.offset) * 4])]

\* the product with the arrays indexed row by row: index = row*4 + col
mulMat4RowMajor(a, b) ==
  [i \in 1..16 |->
     LET r == (i - 1) \div 4
         c == (i - 1) % 4
         term(k) == Mul(a[r * 4 + k + 1], b[k * 4 + c + 1])
     IN Add(Add(Add(term(0), term(1)), term(2)), term(3))]

\* column-major product a*b of two flattened 4x4 matrices
mulMat4(a, b) ==
  [i \in 1..16 |->
     LET r == (i - 1) % 4
         c == (i - 1) \div 4
         term(k) == Mul(a[r + k * 4 + 1], b[k + c * 4 + 1])
     IN Add(Add(Add(term(0), term(1)), term(2)), term(3))]

\* the sixteen numbers of the correction read as four rows instead of four
\* columns
CRowMajor == <<Scale, 0, 0, 0,  0, Scale, 0, 0,  0, 0, 50, 50,  0, 0, 0, Scale>>

\* the depth-range correction, flattened
C == <<Scale, 0, 0, 0,  0, Scale, 0, 0,  0, 0, 50, 0,  0, 0, 50, Scale>>

\* the order the comment in init gives: modelView first
packOrderModelViewFirst ==
  <<"modelView", "mvp", "normalMatrix", "lightPosition", "ambientProduct",
    "diffuseProduct", "specularProduct", "shininess_and_pad">>

\* the order in which packUniforms stores its blocks
packOrder ==
  <<"mvp", "modelView", "normalMatrix", "lightPosition", "ambientProduct",
    "diffuseProduct", "specularProduct", "shininess_and_pad">>

\* stores the named blocks one after the other
RECURSIVE packBlocks(_, _, _)
packBlocks(st, names, blocks) ==
  IF names = <<>> THEN st
  ELSE LET rest(next) == packBlocks(next, Tail(names), blocks)
       IN Apply(rest, packField(st, Head(names), blocks[Head(names)]))

\* the light declared as a point: w = 1.0
lightPositionPositional(fs) ==
  vec4(ToFixed(fs.lightX), ToFixed(fs.lightY), ToFixed(fs.lightZ), Scale)

\* const lightPosition = vec4(lightX, lightY, lightZ, 0.0)
lightPosition(fs) ==
  vec4(ToFixed(fs.lightX), ToFixed(fs.lightY), ToFixed(fs.lightZ), 0)

\* fs: the six gui-controlled values; w, h: clientWidth and clientHeight of
\* the canvas.  The result carries the returned array (data), the final
\* write offset, the slots written in order, the blocks, and the values
\* packUniforms leaves in eye, modelViewMatrix and projectionMatrix.
packUniforms(fs, w, h) ==
  LET e == vec3(ToFixed(fs.camX), ToFixed(fs.camY), ToFixed(fs.camZ))
      mv == lookAt(e, at, up)
      proj == perspective(w, h, near, far)
      nm3 == normalMatrix(mv)
      normalMat4 == [r \in 1..4 |-> [c \in 1..4 |->
                       IF r <= 3 /\ c <= 3 THEN nm3[r][c] ELSE mat4[r][c]]]
      lightPositionEye == multMatVec(mv, lightPosition(fs))
      ambientProduct == multVec(lightAmbient, materialAmbient)
      diffuseProduct == multVec(lightDiffuse, materialDiffuse)
      specularProduct == multVec(lightSpecular, materialSpecular)
      mView == flattenMat(mv)
      mProj == flattenMat(proj)
      mProjCorr == mulMat4(C, mProj)
      mMVP == mulMat4(mProjCorr, mView)
      blocks == [mvp |-> mMVP,
                 modelView |-> mView,
                 normalMatrix |-> flattenMat(normalMat4),
                 lightPosition |-> flattenVec(lightPositionEye),
                 ambientProduct |-> flattenVec(ambientProduct),
                 diffuseProduct |-> flattenVec(diffuseProduct),
                 specularProduct |-> flattenVec(specularProduct),
                 shininess_and_pad |-> <<materialShininess, 0, 0, 0>>]
      st0 == [data |-> zeroData, offset |-> 0, writes |-> <<>>, fields |-> <<>>]
      st == packBlocks(st0, packOrder, blocks)
  IN [data |-> st.data, offset |-> st.offset, writes |-> st.writes, fields |-> st.fields,
      eye |-> e, modelViewMatrix |-> mv, projectionMatrix |-> proj,
      mMVP |-> mMVP, mView |-> mView, mProj |-> mProj, mProjCorr |-> mProjCorr,
      lightPosition |-> lightPosition(fs),
      normalMat4 |-> flattenMat(normalMat4),
      lightPositionEye |-> lightPositionEye, ambientProduct |-> ambientProduct,
      diffuseProduct |-> diffuseProduct, specularProduct |-> specularProduct]

----------------------------------------------------------------------------
(* The Uniforms struct of the two WGSL sources and its layout in a uniform *)
(* buffer                                                                  *)

\* the vertex-stage struct with the light position declared as a vec3
wgslVertexUniformsVec3Light ==
  << [name |-> "mvp", type |-> "array<vec4<f32>,4>"],
     [name |-> "modelView", type |-> "array<vec4<f32>,4>"],
     [name |-> "normalMatrix", type |-> "array<vec4<f32>,4>"],
     [name |-> "lightPosition", type |-> "vec3<f32>"],
     [name |-> "ambientProduct", type |-> "vec4<f32>"],
     [name |-> "diffuseProduct", type |-> "vec4<f32>"],
     [name |-> "specularProduct", type |-> "vec4<f32>"],
     [name |-> "shininess_and_pad", type |-> "vec4<f32>"] >>

wgslVertexUniforms ==
  << [name |-> "mvp", type |-> "array<vec4<f32>,4>"],
     [name |-> "modelView", type |-> "array<vec4<f32>,4>"],
     [name |-> "normalMatrix", type |-> "array<vec4<f32>,4>"],
     [name |-> "lightPosition", type |-> "vec4<f32>"],
     [name |-> "ambientProduct", type |-> "vec4<f32>"],
     [name |-> "diffuseProduct", type |-> "vec4<f32>"],
     [name |-> "specularProduct", type |-> "vec4<f32>"],
     [name |-> "shininess_and_pad", type |-> "vec4<f32>"] >>

wgslFragmentUniforms ==
  << [name |-> "mvp", type |-> "array<vec4<f32>,4>"],
     [name |-> "modelView", type |-> "array<vec4<f32>,4>"],
     [name |-> "normalMatrix", type |-> "array<vec4<f32>,4>"],
     [name |-> "lightPosition", type |-> "vec4<f32>"],
     [name |-> "ambientProduct", type |-> "vec4<f32>"],
     [name |-> "diffuseProduct", type |-> "vec4<f32>"],
     [name |-> "specularProduct", type |-> "vec4<f32>"],
     [name |-> "shininess_and_pad", type |-> "vec4<f32>"] >>

roundUp(k, n) == ((n + k - 1) \div k) * k

\* alignment and size, in bytes, of the WGSL types a Uniforms member can have
AlignOf(type) ==
  CASE type = "f32" -> 4
    [] type = "vec3<f32>" -> 16
    [] type = "vec4<f32>" -> 16
    [] type = "array<vec4<f32>,4>" -> 16
    [] type = "mat4x4<f32>" -> 16

SizeOf(type) ==
  CASE type = "f32" -> 4
    [] type = "vec3<f32>" -> 12
    [] type = "vec4<f32>" -> 16
    [] type = "array<vec4<f32>,4>" -> 4 * roundUp(16, 16)
    [] type = "mat4x4<f32>" -> 64

\* byte offset and size of every member, in declaration order
structLayout(members) ==
  LET off[i \in 1..Len(members)] ==
        IF i = 1 THEN 0
        ELSE roundUp(AlignOf(members[i].type),
                     off[i - 1] + SizeOf(members[i - 1].type))
  IN [i \in 1..Len(members) |->
        [name |-> members[i].name, offset |-> off[i], size |-> SizeOf(members[i].type)]]

\* size of the whole struct: the end of the last member, rounded up to the
\* largest member alignment
structSize(members) ==
  LET lay == structLayout(members)
      last == lay[Len(lay)]
      aligns == {AlignOf(members[i].type) : i \in 1..Len(members)}
      maxAlign == CHOOSE a \in aligns : \A b \in aligns : a >= b
  IN roundUp(maxAlign, last.offset + last.size)

\* the branch of the vertex stage: uniforms.lightPosition.w == 0.0 takes the
\* directional one; lightPosition is at byte 192, its w in slot 51
vertexStageLight(data) == IF data[51 + 1] = 0 THEN "directional" ELSE "positional"

----------------------------------------------------------------------------
(* interleaveVertexData *)

\* the value a Float32Array element holds after a whole number is stored in
\* it: exact up to 2^24, the nearest even number (ties to a multiple of 4)
\* from there to 2^25
ToFloat32(x) ==
  LET m == IF x >= 0 THEN x ELSE 0 - x
      r == IF m <= 2 ^ 24 \/ m % 2 = 0 THEN m
           ELSE IF (m + 1) % 4 = 0 THEN m + 1 ELSE m - 1
  IN IF ~Finite(x) THEN NaN ELSE IF x >= 0 THEN r ELSE 0 - r

\* v[k] for a 0-based k; undefined past the end, which a typed array stores as NaN
component(v, k) == IF k + 1 <= Len(v) THEN v[k + 1] ELSE NaN

\* the interleaver copying four position components and two of the normal
vertexComponentsWithW(p, nm) ==
  << ToFloat32(component(p, 0)), ToFloat32(component(p, 1)), ToFloat32(component(p, 2)),
     ToFloat32(component(p, 3)), ToFloat32(component(nm, 0)), ToFloat32(component(nm, 1)) >>

\* the six numbers written for vertex i
vertexComponents(p, nm) ==
  << ToFloat32(component(p, 0)), ToFloat32(component(p, 1)), ToFloat32(component(p, 2)),
     ToFloat32(component(nm, 0)), ToFloat32(component(nm, 1)), ToFloat32(component(nm, 2)) >>

\* the interleaver without its first line: positionsArray.length of a
\* missing array is a TypeError
interleaveVertexDataUnguarded(positions, normals) ==
  IF positions.missing \/ normals.missing THEN [threw |-> TRUE, out |-> <<>>]
  ELSE [threw |-> FALSE,
        out |-> [j \in 1..(Len(positions.items) * 6) |->
                   vertexComponents(positions.items[((j - 1) \div 6) + 1],
                                    IF ((j - 1) \div 6) + 1 <= Len(normals.items)
                                      THEN normals.items[((j - 1) \div 6) + 1]
                                      ELSE <<>>)[((j - 1) % 6) + 1]]]

\* the result is the returned array, or a TypeError when normalsArray[i] is
\* undefined and nm[0] is read
interleaveVertexData(positions, normals) ==
  IF positions.missing \/ normals.missing THEN [threw |-> FALSE, out |-> <<>>]
  ELSE LET n == Len(positions.items)
           stride == 6
       IN IF \E i \in 1..n : i > Len(normals.items)
            THEN [threw |-> TRUE, out |-> <<>>]
            ELSE [threw |-> FALSE,
                  out |-> [j \in 1..(n * stride) |->
                             vertexComponents(positions.items[((j - 1) \div stride) + 1],
                                              normals.items[((j - 1) \div stride) + 1])
                               [((j - 1) % stride) + 1]]]

----------------------------------------------------------------------------
(* generateMesh: the loop counters are JavaScript Numbers, 64-bit binary   *)
(* floating point.  A Number is held exactly: a sign and a magnitude in    *)
(* units of 2^-55 (0.1 is a whole number of them), the magnitude in two    *)
(* limbs hi * 2^30 + lo.  A sum is rounded to 53 significant bits, ties to *)
(* even, as the hardware rounds it.                                        *)

LimbBase == 2 ^ 30

\* the Number a decimal literal denotes, the literal given in tenths
Double(tenths) ==
  CASE tenths = 1   -> [neg |-> FALSE, hi |-> 3355443,   lo |-> 214748365]
    [] tenths = 2   -> [neg |-> FALSE, hi |-> 6710886,   lo |-> 429496730]
    [] tenths = 5   -> [neg |-> FALSE, hi |-> 16777216,  lo |-> 0]
    [] tenths = 20  -> [neg |-> FALSE, hi |-> 67108864,  lo |-> 0]
    [] tenths = 100 -> [neg |-> FALSE, hi |-> 335544320, lo |-> 0]

magLess(a, b) == a.hi < b.hi \/ (a.hi = b.hi /\ a.lo < b.lo)

magAdd(a, b) ==
  LET lo == a.lo + b.lo
  IN [hi |-> a.hi + b.hi + lo \div LimbBase, lo |-> lo % LimbBase]

\* a - b for a >= b
magSub(a, b) ==
  LET lo == a.lo - b.lo
  IN IF lo >= 0 THEN [hi |-> a.hi - b.hi, lo |-> lo]
     ELSE [hi |-> a.hi - b.hi - 1, lo |-> lo + LimbBase]

bitLength(n) == IF n = 0 THEN 0 ELSE CHOOSE k \in 1..30 : 2 ^ (k - 1) <= n /\ n < 2 ^ k

\* round a magnitude to 53 significant bits, ties to even
roundToDouble(m) ==
  LET k == Max(0, bitLength(m.hi) - 23)
      q == 2 ^ k
      r == m.lo % q
      down == m.lo - r
      odd == (m.lo \div q) % 2 = 1
      roundUp53 == r * 2 > q \/ (r * 2 = q /\ odd)
      lo == IF roundUp53 THEN down + q ELSE down
  IN [hi |-> m.hi + lo \div LimbBase, lo |-> lo % LimbBase]

signed(neg, m) == [neg |-> neg /\ (m.hi # 0 \/ m.lo # 0), hi |-> m.hi, lo |-> m.lo]

\* a + b
dAdd(a, b) ==
  IF a.neg = b.neg THEN signed(a.neg, roundToDouble(magAdd(a, b)))
  ELSE IF magLess(a, b) THEN signed(b.neg, roundToDouble(magSub(b, a)))
  ELSE signed(a.neg, roundToDouble(magSub(a, b)))

\* -a
dNeg(a) == signed(~a.neg, a)

\* a / 2, exact for the magnitudes used here
dHalf(a) ==
  [neg |-> a.neg, hi |-> a.hi \div 2, lo |-> a.lo \div 2 + (a.hi % 2) * (LimbBase \div 2)]

\* a < b
dLess(a, b) ==
  IF a.neg /\ ~b.neg THEN TRUE
  ELSE IF ~a.neg /\ b.neg THEN FALSE
  ELSE IF a.neg THEN magLess(b, a) ELSE magLess(a, b)

\* generateMesh() is called: let x = -size / 2
MeshCall ==
  /\ meshPc = "notCalled"
  /\ meshX' = dHalf(dNeg(Double(meshIn.size)))
  /\ meshPc' = "outer"
  /\ UNCHANGED <<meshIn, meshZ, meshLen>>
  /\ UNCHANGED <<positionsArray, normalsArray, interleaved, packIn, packOut>>
  /\ UNCHANGED <<envVars, layerVars, initVars, mainVars, uiVars, frameVars>>

\* the test of the outer loop: x < size / 2; let z = -size / 2, or return
MeshOuter ==
  /\ meshPc = "outer"
  /\ IF dLess(meshX, dHalf(Double(meshIn.size)))
       THEN /\ meshZ' = dHalf(dNeg(Double(meshIn.size)))
            /\ meshPc' = "inner"
       ELSE /\ meshPc' = "done"
            /\ UNCHANGED meshZ
  /\ UNCHANGED <<meshIn, meshX, meshLen>>
  /\ UNCHANGED <<positionsArray, normalsArray, interleaved, packIn, packOut>>
  /\ UNCHANGED <<envVars, layerVars, initVars, mainVars, uiVars, frameVars>>

\* the test of the inner loop: z < size / 2; one cell pushes two triangles
\* of three vertices of four components, then z += step; at the end of the
\* inner loop x += step
MeshInner ==
  /\ meshPc = "inner"
  /\ IF dLess(meshZ, dHalf(Double(meshIn.size)))
       THEN /\ meshLen' = meshLen + 2 * 3 * 4
            /\ meshZ' = dAdd(meshZ, Double(meshIn.step))
            /\ UNCHANGED <<meshX, meshPc>>
       ELSE /\ meshX' = dAdd(meshX, Double(meshIn.step))
            /\ meshPc' = "outer"
            /\ UNCHANGED <<meshZ, meshLen>>
  /\ UNCHANGED meshIn
  /\ UNCHANGED <<positionsArray, normalsArray, interleaved, packIn, packOut>>
  /\ UNCHANGED <<envVars, layerVars, initVars, mainVars, uiVars, frameVars>>

----------------------------------------------------------------------------
(* Start-up: init() and the initializeWebGPU it awaits *)

\* every failure reported on the console only
logFailureConsoleOnly(log, msg, alerts) == Append(log, <<"console.error", msg>>)

\* console.error(msg), preceded by alert(...) for the failures that alert
logFailure(log, msg, alerts) ==
  IF alerts THEN log \o << <<"alert", msg>>, <<"console.error", msg>> >>
            ELSE Append(log, <<"console.error", msg>>)

\* the backing-store size of a canvas nobody resized yet
InitCanvasVals == {1, 3}

\* the mesh init interleaves, cut down to one grid cell: two triangles
meshPositions ==
  << <<0, 0, 1, 1>>, <<0, 0, 0, 1>>, <<1, 0, 0, 1>>,
     <<1, 0, 0, 1>>, <<1, 0, 1, 1>>, <<0, 0, 1, 1>> >>

meshNormals == [i \in 1..6 |-> <<0, 1, 0, 0>>]

\* the script's last line calls init(); it runs until its first await
InitCall ==
  /\ pcInit = "notStarted"
  /\ initCalls' = initCalls + 1
  /\ \E canvasFound \in BOOLEAN, gpuFound \in BOOLEAN :
       IF ~canvasFound
         THEN /\ errorLog' = logFailure(errorLog, "canvas not found", FALSE)
              /\ pcInit' = "resumeNull"
         ELSE IF ~gpuFound
           THEN /\ errorLog' = logFailure(errorLog, "WebGPU not available", TRUE)
                /\ pcInit' = "resumeNull"
           ELSE /\ errorLog' = errorLog
                /\ pcInit' = "awaitAdapter"
  /\ UNCHANGED <<initRafCalls, envVars, layerVars, mainVars, uiVars, frameVars, pureVars>>

\* navigator.gpu.requestAdapter() settles
AdapterResolved ==
  /\ pcInit = "awaitAdapter"
  /\ \E adapter \in BOOLEAN :
       IF ~adapter
         THEN /\ errorLog' = logFailure(errorLog, "Failed to request GPU adapter", TRUE)
              /\ pcInit' = "resumeNull"
         ELSE /\ errorLog' = errorLog
              /\ pcInit' = "awaitDevice"
  /\ UNCHANGED <<initCalls, initRafCalls, envVars, layerVars, mainVars, uiVars,
                 frameVars, pureVars>>

\* adapter.requestDevice() settles; with a device and a context the closure
\* is built and the first configureContext() result becomes its depthTexture
DeviceResolved ==
  /\ pcInit = "awaitDevice"
  /\ \E dev \in BOOLEAN, ctx \in BOOLEAN :
       IF ~dev
         THEN /\ errorLog' = logFailure(errorLog, "Failed to request GPU device", TRUE)
              /\ pcInit' = "resumeNull"
              /\ UNCHANGED layerVars
         ELSE IF ~ctx
           THEN /\ errorLog' = logFailure(errorLog, "getContext returned null", TRUE)
                /\ pcInit' = "resumeNull"
                /\ UNCHANGED layerVars
           ELSE /\ errorLog' = errorLog
                /\ pcInit' = "resumeOk"
                /\ configureContext
                /\ depthTexture' = createdDepthTexture
                /\ UNCHANGED lastResize
  /\ UNCHANGED <<initCalls, initRafCalls, envVars, mainVars, uiVars, frameVars, pureVars>>

\* the resource-building statements of init, in source order, and the
\* places where one of them can throw
buildSteps == <<"vertexBuffer", "uniformBuffer", "pipeline", "bindGroup", "listeners">>

BuildThrows == {"none", "vertexBuffer", "uniformBuffer", "pipeline", "bindGroup", "listeners"}

stepIndex(step) == CHOOSE k \in 1..Len(buildSteps) : buildSteps[k] = step

\* a statement is executed when nothing before it, nor itself, threw
built(step, throwAt) == throwAt = "none" \/ stepIndex(step) < stepIndex(throwAt)

\* init scheduling the first tick before it builds anything
initSchedulesAlways(throwAt) == TRUE

\* requestAnimationFrame(frame) is the last statement of init
initSchedules(throwAt) == throwAt = "none"

\* init without its null check
initProceedsAlways(result) == TRUE

\* if (!gpu) return
initProceeds(result) == result # Null

\* interleaved.length / 6, the length being a multiple of 6
vertexCountOf(float32Array) == Len(float32Array) \div 6

\* the size taken as a number of floats
createUniformBufferOfFloats(byteSize) == [size |-> ((byteSize \div 4 + 15) \div 16) * 16]

\* (byteSize + 15) & ~15
createUniformBuffer(byteSize) == [size |-> ((byteSize + 15) \div 16) * 16]

\* the array's length taken for its byte length
createGPUVertexBufferOfLength(float32Array) == [size |-> ((Len(float32Array) + 3) \div 4) * 4]

\* (byteLength + 3) & ~3, the bytes of a Float32Array being 4 per element
createGPUVertexBuffer(float32Array) == [size |-> ((Len(float32Array) * 4 + 3) \div 4) * 4]

\* vertex.buffers[0] of the pipeline: arrayStride and the offsets of the
\* attributes at shaderLocation 0 and 1, in bytes
vertexBufferLayout == [arrayStride |-> 6 * 4, offsets |-> <<0, 3 * 4>>]

\* init continues after its await
InitResume ==
  /\ pcInit \in {"resumeNull", "resumeOk"}
  /\ LET result == IF pcInit = "resumeOk" THEN [device |-> "device", queue |-> "queue"]
                                            ELSE Null
     IN /\ gpu' = result
        /\ IF ~initProceeds(result)
             THEN /\ errorLog' = logFailure(errorLog, "WebGPU initialization failed", FALSE)
                  /\ pcInit' = "failed"
                  /\ UNCHANGED <<vertexBufferGPU, uniformBuffer, pipeline, bindGroup,
                                 vertexCount, listeners, labels, rafPending, initRafCalls>>
             ELSE \E throwAt \in BuildThrows :
                  LET data == interleaveVertexData(Array(meshPositions), Array(meshNormals)).out
                  IN /\ errorLog' = errorLog
                     /\ vertexCount' = vertexCountOf(data)
                     /\ vertexBufferGPU' = IF built("vertexBuffer", throwAt)
                                             THEN createGPUVertexBuffer(data) ELSE Null
                     /\ uniformBuffer' = IF built("uniformBuffer", throwAt)
                                           THEN createUniformBuffer(uniformFloats * 4) ELSE Null
                     /\ pipeline' = IF built("pipeline", throwAt)
                                      THEN vertexBufferLayout
                                      ELSE Null
                     /\ bindGroup' = IF built("bindGroup", throwAt)
                                       THEN [binding |-> 0] ELSE Null
                     /\ listeners' = built("listeners", throwAt)
                     /\ labels' = IF built("listeners", throwAt)
                                    THEN [k \in DOMAIN frameState |-> frameState[k] * 10]
                                    ELSE labels
                     /\ rafPending' = IF initSchedules(throwAt) THEN rafPending + 1
                                                               ELSE rafPending
                     /\ initRafCalls' = IF initSchedules(throwAt) THEN initRafCalls + 1
                                                                 ELSE initRafCalls
                     /\ pcInit' = IF throwAt = "none" THEN "done" ELSE "threw"
  /\ UNCHANGED <<initCalls, envVars, layerVars, eye, modelViewMatrix, projectionMatrix,
                 frameState, uiEvents, framePc, tick, tickLog, tickOutcome, views,
                 renderPass, uniformData, submitted, pureVars>>

----------------------------------------------------------------------------
(* The slider callbacks of addEventListeners *)

Inputs == {"camX", "camY", "camZ", "lightX", "lightY", "lightZ"}

\* event.target.value, the text of a number, held in tenths ("-1.5" is -15)
SliderVals == {-15}

\* parseInt keeps the digits before the decimal point
parseInt(tenths) == Quot(tenths, 10)

\* frame as an async function that awaits the queue before it submits
frameYieldsAtSubmit(pc) == pc = "submit"

\* frame as an async function that awaits the frame targets
frameYieldsAfterPack(pc) == pc = "getCurrentViews"

\* frame() is a plain function: it reaches no await, so between its first
\* and its last statement the host can run nothing else
frameYields(pc) == FALSE

PointerMove ==
  /\ listeners
  /\ framePc = "idle" \/ frameYields(framePc)
  /\ uiEvents < MaxUiEvents
  /\ \E input \in Inputs, value \in SliderVals :
       /\ frameState' = [frameState EXCEPT ![input] = parseInt(value)]
       /\ labels' = [labels EXCEPT ![input] = value]
  /\ uiEvents' = uiEvents + 1
  /\ UNCHANGED <<listeners, envVars, layerVars, initVars, mainVars, frameVars, pureVars>>

----------------------------------------------------------------------------
(* The frame driver: frame() *)

\* frame with the frame targets acquired before the resize check
frameOrderAcquireFirst ==
  <<"getCurrentViews", "onResize", "packUniforms", "record", "submit",
    "requestAnimationFrame">>

\* the statements of frame, in source order
frameOrder ==
  <<"onResize", "packUniforms", "getCurrentViews", "record", "submit",
    "requestAnimationFrame">>

\* frame returning after submit without scheduling the next tick
frameNextSkipsSchedule(pc) ==
  LET k == CHOOSE i \in 1..Len(frameOrder) : frameOrder[i] = pc
  IN IF k < Len(frameOrder) - 1 THEN frameOrder[k + 1] ELSE "idle"

frameNext(pc) ==
  LET k == CHOOSE i \in 1..Len(frameOrder) : frameOrder[i] = pc
  IN IF k < Len(frameOrder) THEN frameOrder[k + 1] ELSE "idle"

\* the callback goes on to its next statement, or returns after the last
frameAdvances ==
  /\ framePc' = frameNext(framePc)
  /\ tickOutcome' = IF frameNext(framePc) = "idle" THEN "returned" ELSE tickOutcome

\* a host call that throws ends the callback: frame has no try/catch
frameThrows ==
  /\ framePc' = "idle"
  /\ tickOutcome' = "threw"

\* the host runs a scheduled frame callback
FrameStart ==
  /\ framePc = "idle"
  /\ pcInit \notin {"notStarted"}
  /\ rafPending > 0
  /\ tick < MaxTicks
  /\ rafPending' = rafPending - 1
  /\ tick' = tick + 1
  /\ tickLog' = <<>>
  /\ tickOutcome' = "running"
  /\ views' = Null
  /\ renderPass' = Null
  /\ framePc' = frameOrder[1]
  /\ UNCHANGED <<uniformData, submitted, envVars, layerVars, initVars, mainVars, uiVars,
                 pureVars>>

\* gpu.onResize()
FrameResize ==
  /\ framePc = "onResize"
  /\ onResize
  /\ tickLog' = Append(tickLog, "onResize")
  /\ frameAdvances
  /\ UNCHANGED <<rafPending, tick, views, renderPass, uniformData, submitted,
                 envVars, initVars, mainVars, uiVars, pureVars>>

\* const uniformData = packUniforms(); queue.writeBuffer(uniformBuffer, 0, ...)
FramePack ==
  /\ framePc = "packUniforms"
  /\ \E out \in {packUniforms(frameState, clientW, clientH)} :
        /\ eye' = out.eye
        /\ modelViewMatrix' = out.modelViewMatrix
        /\ projectionMatrix' = out.projectionMatrix
        /\ uniformData' = [bufferOffset |-> 0, bytes |-> Len(out.data) * 4,
                           data |-> out.data, from |-> frameState]
  /\ tickLog' = tickLog \o <<"packUniforms", "writeBuffer">>
  /\ frameAdvances
  /\ UNCHANGED <<rafPending, tick, views, renderPass, submitted,
                 gpu, vertexBufferGPU, uniformBuffer, pipeline, bindGroup, vertexCount,
                 envVars, layerVars, initVars, uiVars, pureVars>>

\* const { view, depthView } = gpu.getCurrentViews()
FrameAcquire ==
  /\ framePc = "getCurrentViews"
  /\ \E throws \in BOOLEAN :
       IF throws
         THEN frameThrows /\ UNCHANGED <<tickLog, views>>
         ELSE /\ views' = getCurrentViews
              /\ tickLog' = Append(tickLog, "getCurrentViews")
              /\ frameAdvances
  /\ UNCHANGED <<rafPending, tick, renderPass, uniformData, submitted,
                 envVars, layerVars, initVars, mainVars, uiVars, pureVars>>

\* a frame that builds a vertex buffer of its own for the draw
drawCallNewBuffer(targets) ==
  [views |-> targets, pipeline |-> pipeline, bindGroup |-> bindGroup,
   vertexBuffer |-> [size |-> 0], vertexCount |-> vertexCount]

\* what the render pass is given: the frame targets and the module-level
\* pipeline, bindGroup, vertexBufferGPU and vertexCount
drawCall(targets) ==
  [views |-> targets, pipeline |-> pipeline, bindGroup |-> bindGroup,
   vertexBuffer |-> vertexBufferGPU, vertexCount |-> vertexCount]

\* beginRenderPass, setPipeline, setBindGroup, setVertexBuffer, draw, end
FrameRecord ==
  /\ framePc = "record"
  /\ \E throws \in BOOLEAN :
       IF throws
         THEN frameThrows /\ UNCHANGED <<tickLog, renderPass>>
         ELSE /\ renderPass' = drawCall(views)
              /\ tickLog' = tickLog \o <<"setPipeline", "setBindGroup", "setVertexBuffer",
                                         "draw", "end">>
              /\ frameAdvances
  /\ UNCHANGED <<rafPending, tick, views, uniformData, submitted,
                 envVars, layerVars, initVars, mainVars, uiVars, pureVars>>

\* device.queue.submit([commandEncoder.finish()])
FrameSubmit ==
  /\ framePc = "submit"
  /\ \E throws \in BOOLEAN :
       IF throws
         THEN frameThrows /\ UNCHANGED <<tickLog, submitted>>
         ELSE /\ submitted' = submitted + 1
              /\ tickLog' = Append(tickLog, "submit")
              /\ frameAdvances
  /\ UNCHANGED <<rafPending, tick, views, renderPass, uniformData,
                 envVars, layerVars, initVars, mainVars, uiVars, pureVars>>

\* requestAnimationFrame(frame), then frame returns
FrameSchedule ==
  /\ framePc = "requestAnimationFrame"
  /\ rafPending' = rafPending + 1
  /\ tickLog' = Append(tickLog, "requestAnimationFrame")
  /\ frameAdvances
  /\ UNCHANGED <<tick, views, renderPass, uniformData, submitted,
                 envVars, layerVars, initVars, mainVars, uiVars, pureVars>>

----------------------------------------------------------------------------
(* The program: the script is loaded, init() has not been called yet *)

InitMeshIdle ==
  /\ meshIn = Null /\ meshX = Undefined /\ meshZ = Undefined
  /\ meshLen = 0 /\ meshPc = "notCalled"

InitPure ==
  /\ positionsArray = Missing /\ normalsArray = Missing /\ interleaved = Null
  /\ packIn = Null /\ packOut = Null
  /\ InitMeshIdle

InitProgramVars ==
  /\ pcInit = "notStarted" /\ initCalls = 0 /\ initRafCalls = 0 /\ errorLog = <<>>
  /\ gpu = Null /\ vertexBufferGPU = Null /\ uniformBuffer = Null
  /\ pipeline = Null /\ bindGroup = Null /\ vertexCount = 0
  /\ eye = Undefined /\ modelViewMatrix = Undefined /\ projectionMatrix = Undefined
  /\ frameState = initialFrameState
  /\ labels = [k \in Inputs |-> NaN]
  /\ listeners = FALSE /\ uiEvents = 0
  /\ rafPending = 0 /\ framePc = "idle" /\ tick = 0 /\ tickLog = <<>>
  /\ tickOutcome = "none" /\ views = Null /\ renderPass = Null
  /\ uniformData = Null /\ submitted = 0

Init ==
  /\ clientW \in ClientVals /\ clientH \in ClientVals /\ dpr \in DprVals
  /\ displayChanges = 0
  /\ canvasW \in InitCanvasVals /\ canvasH \in InitCanvasVals
  /\ depthTexture = Null /\ texAlloc = 0 /\ configureCount = 0 /\ lastResize = Undefined
  /\ InitProgramVars
  /\ InitPure

Next ==
  \/ InitCall
  \/ AdapterResolved
  \/ DeviceResolved
  \/ InitResume
  \/ DisplayChange
  \/ PointerMove
  \/ FrameStart
  \/ FrameResize
  \/ FramePack
  \/ FrameAcquire
  \/ FrameRecord
  \/ FrameSubmit
  \/ FrameSchedule

Spec == Init /\ [][Next]_vars

----------------------------------------------------------------------------
(* The device/context layer on its own: a caller holds the object that     *)
(* initializeWebGPU returned and calls its operations in any order while   *)
(* the display size changes.                                               *)

InitGpu ==
  /\ clientW \in ClientVals /\ clientH \in ClientVals /\ dpr \in DprVals
  /\ displayChanges = 0
  /\ canvasW = displayWidth /\ canvasH = displayHeight
  /\ depthTexture = [id |-> 1, w |-> canvasW, h |-> canvasH]
  /\ texAlloc = 1 /\ configureCount = 1 /\ lastResize = Undefined
  /\ pcInit = "resumeOk" /\ initCalls = 1 /\ initRafCalls = 0 /\ errorLog = <<>>
  /\ gpu = Null /\ vertexBufferGPU = Null /\ uniformBuffer = Null
  /\ pipeline = Null /\ bindGroup = Null /\ vertexCount = 0
  /\ eye = Undefined /\ modelViewMatrix = Undefined /\ projectionMatrix = Undefined
  /\ frameState = initialFrameState
  /\ labels = [k \in Inputs |-> NaN]
  /\ listeners = FALSE /\ uiEvents = 0
  /\ rafPending = 0 /\ framePc = "idle" /\ tick = 0 /\ tickLog = <<>>
  /\ tickOutcome = "none" /\ views = Null /\ renderPass = Null
  /\ uniformData = Null /\ submitted = 0
  /\ InitPure

\* gpu.onResize()
CallOnResize ==
  /\ resizeChanged => texAlloc < MaxTextures
  /\ onResize
  /\ UNCHANGED <<envVars, initVars, mainVars, uiVars, frameVars, pureVars>>

\* gpu.configureContext(): the returned texture is the caller's, the
\* closure's depthTexture stays what it was
CallConfigureContext ==
  /\ texAlloc < MaxTextures
  /\ configureContext
  /\ UNCHANGED <<depthTexture, lastResize>>
  /\ UNCHANGED <<envVars, initVars, mainVars, uiVars, frameVars, pureVars>>

\* gpu.resizeCanvasToDisplaySize()
CallResizeCanvasToDisplaySize ==
  /\ resizeChanged
  /\ resizeCanvasToDisplaySize
  /\ UNCHANGED <<depthTexture, texAlloc, configureCount, lastResize>>
  /\ UNCHANGED <<envVars, initVars, mainVars, uiVars, frameVars, pureVars>>

\* gpu.getCurrentViews()
CallGetCurrentViews ==
  /\ views' = getCurrentViews
  /\ views' # views
  /\ UNCHANGED <<rafPending, framePc, tick, tickLog, tickOutcome, renderPass,
                 uniformData, submitted>>
  /\ UNCHANGED <<envVars, layerVars, initVars, mainVars, uiVars, pureVars>>

NextGpu ==
  \/ DisplayChange
  \/ CallOnResize
  \/ CallConfigureContext
  \/ CallResizeCanvasToDisplaySize
  \/ CallGetCurrentViews

SpecGpu == InitGpu /\ [][NextGpu]_vars

----------------------------------------------------------------------------
(* packUniforms on its own, over camera/light values and canvas sizes *)

\* values a gui-controlled variable is given
PackVals == {0, 13}

InitPack ==
  /\ packIn \in [fs : [Inputs -> PackVals], w : ClientVals, h : ClientVals]
  /\ packOut = Null
  /\ positionsArray = Missing /\ normalsArray = Missing /\ interleaved = Null
  /\ InitMeshIdle
  /\ clientW = 1 /\ clientH = 1 /\ dpr = 2 /\ displayChanges = 0
  /\ canvasW = 1 /\ canvasH = 1
  /\ depthTexture = Null /\ texAlloc = 0 /\ configureCount = 0 /\ lastResize = Undefined
  /\ InitProgramVars

CallPackUniforms ==
  /\ packOut = Null
  /\ \E out \in {packUniforms(packIn.fs, packIn.w, packIn.h)} :
        /\ packOut' = out
        /\ eye' = out.eye
        /\ modelViewMatrix' = out.modelViewMatrix
        /\ projectionMatrix' = out.projectionMatrix
  /\ UNCHANGED <<gpu, vertexBufferGPU, uniformBuffer, pipeline, bindGroup, vertexCount>>
  /\ UNCHANGED <<positionsArray, normalsArray, interleaved, packIn, meshVars>>
  /\ UNCHANGED <<envVars, layerVars, initVars, uiVars, frameVars>>

NextPack == CallPackUniforms

SpecPack == InitPack /\ [][NextPack]_vars

----------------------------------------------------------------------------
(* interleaveVertexData on its own *)

\* vec4-like arrays [x, y, z, w]; the w of each occurs nowhere among the
\* x, y, z, and two components are beyond the whole numbers a 32-bit float
\* holds exactly
VecVals == { <<1, 2, 3, 4>>, <<5, 6, 7, 8>>, <<16777217, 0 - 16777219, 9, 0>> }

RECURSIVE SeqsUpTo(_, _)
SeqsUpTo(S, n) ==
  IF n = 0 THEN { <<>> }
  ELSE LET shorter == SeqsUpTo(S, n - 1)
       IN shorter \cup { Append(q, x) : q \in shorter, x \in S }

ArrayInputs == {Missing} \cup { Array(q) : q \in SeqsUpTo(VecVals, MaxVerts) }

InitInterleave ==
  /\ positionsArray \in ArrayInputs /\ normalsArray \in ArrayInputs
  /\ interleaved = Null
  /\ packIn = Null /\ packOut = Null
  /\ InitMeshIdle
  /\ clientW = 1 /\ clientH = 1 /\ dpr = 2 /\ displayChanges = 0
  /\ canvasW = 1 /\ canvasH = 1
  /\ depthTexture = Null /\ texAlloc = 0 /\ configureCount = 0 /\ lastResize = Undefined
  /\ InitProgramVars

CallInterleave ==
  /\ interleaved = Null
  /\ interleaved' \in {interleaveVertexData(positionsArray, normalsArray)}
  /\ UNCHANGED <<positionsArray, normalsArray, packIn, packOut, meshVars>>
  /\ UNCHANGED <<envVars, layerVars, initVars, mainVars, uiVars, frameVars>>

\* the statements of init that follow the interleaver: vertexCount, the
\* vertex buffer and the pipeline's vertex layout
CallBuildVertexBuffer ==
  /\ interleaved # Null /\ ~interleaved.threw
  /\ vertexBufferGPU = Null
  /\ vertexCount' = vertexCountOf(interleaved.out)
  /\ vertexBufferGPU' = createGPUVertexBuffer(interleaved.out)
  /\ pipeline' = vertexBufferLayout
  /\ UNCHANGED <<gpu, uniformBuffer, bindGroup, eye, modelViewMatrix, projectionMatrix>>
  /\ UNCHANGED <<envVars, layerVars, initVars, uiVars, frameVars, pureVars>>

NextInterleave ==
  \/ CallInterleave
  \/ CallBuildVertexBuffer

SpecInterleave == InitInterleave /\ [][NextInterleave]_vars

----------------------------------------------------------------------------
(* generateMesh on its own, for its own size and step and for others *)

\* size and step in tenths: 10 and 0.1 are the values of the program
MeshParams == { [size |-> 100, step |-> 1], [size |-> 100, step |-> 5],
                [size |-> 20, step |-> 2], [size |-> 20, step |-> 5] }

InitMesh ==
  /\ meshIn \in MeshParams
  /\ meshX = Undefined /\ meshZ = Undefined /\ meshLen = 0 /\ meshPc = "notCalled"
  /\ positionsArray = Missing /\ normalsArray = Missing /\ interleaved = Null
  /\ packIn = Null /\ packOut = Null
  /\ clientW = 1 /\ clientH = 1 /\ dpr = 2 /\ displayChanges = 0
  /\ canvasW = 1 /\ canvasH = 1
  /\ depthTexture = Null /\ texAlloc = 0 /\ configureCount = 0 /\ lastResize = Undefined
  /\ InitProgramVars

NextMesh ==
  \/ MeshCall
  \/ MeshOuter
  \/ MeshInner

SpecMesh == InitMesh /\ [][NextMesh]_vars

----------------------------------------------------------------------------
(* The correction of the projection on its own: mulMat4(C, mProj) for      *)
(* projections whose columns are drawn from a few clip vectors, the        *)
(* identity among them                                                     *)

\* clip vectors (x, y, z, w); the first four are the columns of the identity
ClipVals ==
  { <<Scale, 0, 0, 0>>, <<0, Scale, 0, 0>>, <<0, 0, Scale, 0>>, <<0, 0, 0, Scale>>,
    <<20, 0 - 40, 60, 80>> }

InitCorrect ==
  /\ packIn \in { [mProj |-> c1 \o c2 \o c3 \o c4] :
                    c1 \in ClipVals, c2 \in ClipVals, c3 \in ClipVals, c4 \in ClipVals }
  /\ packOut = Null
  /\ positionsArray = Missing /\ normalsArray = Missing /\ interleaved = Null
  /\ InitMeshIdle
  /\ clientW = 1 /\ clientH = 1 /\ dpr = 2 /\ displayChanges = 0
  /\ canvasW = 1 /\ canvasH = 1
  /\ depthTexture = Null /\ texAlloc = 0 /\ configureCount = 0 /\ lastResize = Undefined
  /\ InitProgramVars

\* const mProjCorr = mulMat4(C, mProj)
CallCorrect ==
  /\ packOut = Null
  /\ packOut' \in { [mProjCorr |-> mulMat4(C, packIn.mProj)] }
  /\ UNCHANGED <<positionsArray, normalsArray, interleaved, packIn, meshVars>>
  /\ UNCHANGED <<envVars, layerVars, initVars, mainVars, uiVars, frameVars>>

NextCorrect == CallCorrect

SpecCorrect == InitCorrect /\ [][NextCorrect]_vars

----------------------------------------------------------------------------
(* Properties *)

IsPrefix(q, t) == Len(q) <= Len(t) /\ SubSeq(t, 1, Len(q)) = q

\* the host calls of one complete tick
fullTick ==
  <<"onResize", "packUniforms", "writeBuffer", "getCurrentViews", "setPipeline",
    "setBindGroup", "setVertexBuffer", "draw", "end", "submit", "requestAnimationFrame">>

FrameOnlyAfterBuild ==
  /\ (rafPending > 0 \/ framePc # "idle" \/ tick > 0) =>
        /\ vertexBufferGPU # Null /\ uniformBuffer # Null
        /\ pipeline # Null /\ bindGroup # Null
        /\ pcInit = "done"
  /\ initCalls <= 1
  /\ initRafCalls <= 1

\* the first tick records its pass with the resources init built
FrameOnlyAfterBuildWitness ==
  framePc = "submit" /\ tick = 1 /\ renderPass # Null /\ initRafCalls = 1

\* initializeWebGPU logged a failure and returned null
initFailed == errorLog # <<>>

noResources ==
  /\ gpu = Null /\ depthTexture = Null /\ texAlloc = 0 /\ configureCount = 0
  /\ vertexBufferGPU = Null /\ uniformBuffer = Null
  /\ pipeline = Null /\ bindGroup = Null /\ ~listeners

\* C3: once initializeWebGPU has failed (no canvas, no navigator.gpu, no
\* adapter, no device or no context) init creates no GPU resource, no frame
\* is scheduled or run, init is not called again, and this never changes.
InitFailureIsFinal ==
  /\ [](initFailed =>
          /\ pcInit \in {"resumeNull", "failed"}
          /\ noResources
          /\ rafPending = 0 /\ framePc = "idle" /\ tick = 0
          /\ initCalls = 1 /\ initRafCalls = 0)
  /\ [][initFailed => initFailed']_vars

\* init has returned after a device request that gave nothing
InitFailureWitness ==
  /\ pcInit = "failed"
  /\ errorLog[1] = <<"alert", "Failed to request GPU device">>
  /\ displayChanges = 1

\* C4: at most one frame callback is pending or executing; a frame callback
\* starts only when none is executing; while one executes no slider callback
\* runs.
FramesNeverOverlap ==
  /\ [](rafPending + (IF framePc = "idle" THEN 0 ELSE 1) <= 1)
  /\ [][tick' # tick => framePc = "idle"]_vars
  /\ [][framePc # "idle" =>
          frameState' = frameState /\ labels' = labels /\ uiEvents' = uiEvents]_vars

\* a tick is under way after a slider callback has run
FramesNeverOverlapWitness == framePc = "record" /\ uiEvents = 1 /\ tick = 2

resizeCheck == framePc = "onResize" /\ framePc' # "onResize"

\* C6: a resize check that sees the display size the previous resize check
\* saw keeps the depth texture and does not configure the context again; a
\* resize check replaces the depth texture only when the display size
\* differs from the canvas backing-store size.
ResizeKeepsDepthTexture ==
  [][resizeCheck =>
       /\ lastResize = <<displayWidth, displayHeight>> =>
            depthTexture' = depthTexture /\ configureCount' = configureCount
       /\ depthTexture' # depthTexture =>
            canvasW # displayWidth \/ canvasH # displayHeight]_vars

\* two resize checks saw the same display size: the depth texture is still
\* the one created at initialization
ResizeKeepsDepthTextureWitness ==
  /\ tick = 2 /\ framePc = "packUniforms"
  /\ displayChanges = 0 /\ depthTexture # Null /\ depthTexture.id = 1
  /\ lastResize = <<displayWidth, displayHeight>>

\* C7 as claimed: the depth texture behind the depth view that
\* getCurrentViews returns has the width and height of the canvas backing
\* store, whatever operations of the layer were called before.
DepthMatchesSurface ==
  views # Null => views.depth.w = views.w /\ views.depth.h = views.h

listedLayout ==
  << [name |-> "mvp", offset |-> 0, size |-> 64],
     [name |-> "modelView", offset |-> 64, size |-> 64],
     [name |-> "normalMatrix", offset |-> 128, size |-> 64],
     [name |-> "lightPosition", offset |-> 192, size |-> 16],
     [name |-> "ambientProduct", offset |-> 208, size |-> 16],
     [name |-> "diffuseProduct", offset |-> 224, size |-> 16],
     [name |-> "specularProduct", offset |-> 240, size |-> 16],
     [name |-> "shininess_and_pad", offset |-> 256, size |-> 16] >>

wComponents == { v[4] : v \in VecVals }

\* C10: for two sequences of N four-component vectors the interleaver
\* returns 6*N components; components 6i..6i+2 are x, y, z of position i and
\* components 6i+3..6i+5 are x, y, z of normal i, as 32-bit floats; no w
\* component is in the result.
InterleavedLayout ==
  (/\ interleaved # Null
   /\ ~positionsArray.missing /\ ~normalsArray.missing
   /\ Len(positionsArray.items) = Len(normalsArray.items)) =>
     LET n == Len(positionsArray.items)
         out == interleaved.out
     IN /\ ~interleaved.threw
        /\ Len(out) = 6 * n
        /\ \A i \in 0..(n - 1), k \in 0..2 :
             /\ out[6 * i + k + 1] = ToFloat32(positionsArray.items[i + 1][k + 1])
             /\ out[6 * i + 3 + k + 1] = ToFloat32(normalsArray.items[i + 1][k + 1])
        /\ \A j \in 1..Len(out) : out[j] \notin wComponents

\* two different vertices with two different normals were interleaved
InterleavedLayoutWitness ==
  /\ interleaved # Null /\ ~positionsArray.missing /\ ~normalsArray.missing
  /\ Len(positionsArray.items) = 2 /\ Len(normalsArray.items) = 2
  /\ positionsArray.items[1] # positionsArray.items[2]
  /\ normalsArray.items[1] # positionsArray.items[1]
  /\ Len(interleaved.out) = 12

\* C11: when the position sequence or the normal sequence is missing, the
\* interleaver raises no error and returns a zero-length array, and the
\* vertex count init derives from it is 0.
MissingInputGivesEmpty ==
  (interleaved # Null /\ (positionsArray.missing \/ normalsArray.missing)) =>
     /\ ~interleaved.threw
     /\ Len(interleaved.out) = 0
     /\ vertexCountOf(interleaved.out) = 0

\* the interleaver was given positions but no normals
MissingInputGivesEmptyWitness ==
  /\ interleaved # Null /\ ~interleaved.threw
  /\ ~positionsArray.missing /\ Len(positionsArray.items) = 2
  /\ normalsArray.missing

\* C12 as claimed: two sequences of different lengths, both present, give
\* a zero-length result.
MismatchedGivesEmpty ==
  (/\ interleaved # Null
   /\ ~positionsArray.missing /\ ~normalsArray.missing
   /\ Len(positionsArray.items) # Len(normalsArray.items)) =>
     ~interleaved.threw /\ Len(interleaved.out) = 0

\* C13 as claimed: for size d and step s the mesh generator returns
\* 2 * (d/s)^2 triangles of three 4-component vertices; 20000 triangles for
\* d = 10 and s = 0.1.
MeshTriangleCount ==
  meshPc = "done" =>
    meshLen = 2 * (meshIn.size \div meshIn.step) * (meshIn.size \div meshIn.step) * 3 * 4

\* the failures of initializeWebGPU that the claim calls fatal
fatalInitErrors ==
  { "WebGPU not available", "Failed to request GPU adapter",
    "Failed to request GPU device", "getContext returned null" }

\* C14: when initializeWebGPU returns null because the graphics API, the
\* adapter, the device or the context is missing, the failure has been shown
\* in an alert and then written to the console error log.
FatalErrorsAlertAndLog ==
  pcInit = "resumeNull" =>
    /\ Len(errorLog) >= 1
    /\ LET last == errorLog[Len(errorLog)]
       IN /\ last[1] = "console.error"
          /\ last[2] \in fatalInitErrors =>
               /\ Len(errorLog) >= 2
               /\ errorLog[Len(errorLog) - 1] = <<"alert", last[2]>>

\* the device request failed and initializeWebGPU is about to return null
FatalErrorsAlertAndLogWitness ==
  /\ pcInit = "resumeNull"
  /\ errorLog = << <<"alert", "Failed to request GPU device">>,
                   <<"console.error", "Failed to request GPU device">> >>

\* the pack step of a tick: packUniforms() and the upload of its result
packStep == framePc = "packUniforms" /\ framePc' # "packUniforms"

\* C15 as claimed: a call of packUniforms leaves every module-level variable
\* as it was: the camera and light values, and eye, modelViewMatrix and
\* projectionMatrix.
PackChangesNoState ==
  [][packStep =>
       /\ frameState' = frameState
       /\ eye' = eye
       /\ modelViewMatrix' = modelViewMatrix
       /\ projectionMatrix' = projectionMatrix]_vars

\* a pointer-move callback has run
uiStep == uiEvents' # uiEvents

\* C16 as claimed: after a pointer-move event on one of the six inputs the
\* field of that input equals the input's live value, the label of that
\* input shows the same value, and the other five fields are unchanged.
\* (Fields are whole units, labels are tenths.)
SliderSetsField ==
  [][uiStep =>
       \E input \in Inputs :
         /\ labels' = [labels EXCEPT ![input] = labels'[input]]
         /\ frameState'[input] * 10 = labels'[input]
         /\ \A other \in Inputs \ {input} : frameState'[other] = frameState[other]]_vars

\* configureContext is called again while the canvas has the display size
configuredAgain ==
  /\ configureCount >= 1 /\ configureCount' # configureCount
  /\ canvasW = displayWidth /\ canvasH = displayHeight

\* C17 as claimed: configureContext called again at an unchanged display
\* size leaves the canvas size and the depth texture that getCurrentViews
\* uses as they were and allocates no further depth texture.
ConfigureIdempotent ==
  [][configuredAgain =>
       /\ canvasW' = canvasW /\ canvasH' = canvasH
       /\ depthTexture' = depthTexture
       /\ texAlloc' = texAlloc]_vars

\* the element in row r and column c (counted from 1) of a flattened
\* column-major matrix: index = row + col*4
elem(m, r, c) == m[(r - 1) + (c - 1) * 4 + 1]

\* every column (x, y, z, w) of the projection has become
\* (x, y, 0.5*z + 0.5*w, w)
correctionRemapsDepth ==
  \A c \in 1..4 :
    /\ elem(packOut.mProjCorr, 1, c) = elem(packIn.mProj, 1, c)
    /\ elem(packOut.mProjCorr, 2, c) = elem(packIn.mProj, 2, c)
    /\ elem(packOut.mProjCorr, 3, c) * 2 = elem(packIn.mProj, 3, c) + elem(packIn.mProj, 4, c)
    /\ elem(packOut.mProjCorr, 4, c) = elem(packIn.mProj, 4, c)

\* C18 as claimed: the correction maps (x, y, z, w) to (x, y, 0.5z + 0.5w, w),
\* and for the identity projection the corrected matrix has 0.5 in its third
\* row, third column and 0.5 in its fourth row, third column.
CorrectionFourthRowThirdColumn ==
  packOut # Null =>
    /\ correctionRemapsDepth
    /\ packIn.mProj = flattenMat(mat4) =>
         /\ elem(packOut.mProjCorr, 3, 3) = 50
         /\ elem(packOut.mProjCorr, 4, 3) = 50

\* C18 amended: the correction maps (x, y, z, w) to (x, y, 0.5z + 0.5w, w),
\* and for the identity projection the corrected matrix has 0.5 in its third
\* row, third column and 0.5 in its third row, fourth column (slot 14 of the
\* flattened matrix); its fourth row is (0, 0, 0, 1).
CorrectionThirdRowFourthColumn ==
  packOut # Null =>
    /\ correctionRemapsDepth
    /\ packIn.mProj = flattenMat(mat4) =>
         /\ elem(packOut.mProjCorr, 3, 3) = 50
         /\ elem(packOut.mProjCorr, 3, 4) = 50
         /\ packOut.mProjCorr[14 + 1] = 50
         /\ \A c \in 1..4 : elem(packOut.mProjCorr, 4, c) = IF c = 4 THEN Scale ELSE 0

\* the identity projection was corrected
CorrectionThirdRowFourthColumnWitness ==
  /\ packOut # Null
  /\ packIn.mProj = flattenMat(mat4)
  /\ packOut.mProjCorr # packIn.mProj

\* the matrix a flattened column-major array holds, as rows of columns
unflatten(m) == [r \in 1..4 |-> [c \in 1..4 |-> elem(m, r, c)]]

\* the matrix product A*B: row r of A times column c of B
times(A, B) ==
  [r \in 1..4 |-> [c \in 1..4 |->
     Add(Add(Add(Mul(A[r][1], B[1][c]), Mul(A[r][2], B[2][c])),
             Mul(A[r][3], B[3][c])), Mul(A[r][4], B[4][c]))]]

\* slots first..last (counted from 0) of the packed array
slots(data, first, last) == SubSeq(data, first + 1, last + 1)

\* C19: slots 0-15 hold (C * projection) * camera transform; slots 16-31
\* hold the camera transform itself and slots 48-51 the light position
\* (w = 0) transformed by the camera transform, neither touched by C.
CombinedTransformOrder ==
  packOut # Null =>
    LET P == packOut.projectionMatrix
        V == packOut.modelViewMatrix
        light == vec4(ToFixed(packIn.fs.lightX), ToFixed(packIn.fs.lightY),
                      ToFixed(packIn.fs.lightZ), 0)
    IN /\ slots(packOut.data, 0, 15) = flattenMat(times(times(unflatten(C), P), V))
       /\ slots(packOut.data, 16, 31) = flattenMat(V)
       /\ slots(packOut.data, 48, 51) = multMatVec(V, light)

\* a finite combined transform that differs from the uncorrected product
\* and from the product with C on the right of the projection
CombinedTransformOrderWitness ==
  /\ packOut # Null
  /\ \A i \in 1..16 : Finite(packOut.data[i])
  /\ LET P == packOut.projectionMatrix
         V == packOut.modelViewMatrix
     IN /\ slots(packOut.data, 0, 15) # flattenMat(times(P, V))
        /\ slots(packOut.data, 0, 15) # flattenMat(times(times(P, unflatten(C)), V))
        /\ slots(packOut.data, 0, 15) # flattenMat(times(V, times(unflatten(C), P)))

\* the part of a tick after its pack step
afterPack == framePc \in {"getCurrentViews", "record", "submit", "schedule"}

\* C20: from its pack step to its end a tick's upload is the serialization
\* of one frame state, the six values as they are at the pack step: no
\* pointer-move callback writes one of them before the tick is over, and
\* between ticks only pointer-move callbacks write them, so that a later
\* write is what the next tick's pack step reads.
UploadIsOneSnapshot ==
  /\ [](afterPack =>
          /\ uniformData # Null
          /\ uniformData.from = frameState
          /\ uniformData.data = packUniforms(frameState, clientW, clientH).data)
  /\ [][packStep => uniformData'.from = frameState]_vars
  /\ [][frameState' # frameState => uiStep /\ framePc = "idle"]_vars

\* the second tick has uploaded a value that a pointer-move callback wrote
\* after the first tick's pack step
UploadIsOneSnapshotWitness ==
  /\ tick = 2 /\ framePc = "getCurrentViews"
  /\ uiEvents = 1
  /\ uniformData.from # initialFrameState
  /\ uniformData.from = frameState

\* the module-level GPU resources
resources == <<pipeline, bindGroup, vertexBufferGPU, uniformBuffer, vertexCount>>

\* C21: once init has completed, no step of the program assigns pipeline,
\* bindGroup, vertexBufferGPU, uniformBuffer or vertexCount, and every
\* recorded draw uses the pipeline, bind group, vertex buffer and vertex
\* count that init created.
ResourcesImmutable ==
  /\ [][pcInit = "done" => resources' = resources]_vars
  /\ [](renderPass # Null =>
          /\ pcInit = "done"
          /\ pipeline # Null /\ bindGroup # Null /\ vertexBufferGPU # Null
          /\ renderPass.pipeline = pipeline
          /\ renderPass.bindGroup = bindGroup
          /\ renderPass.vertexBuffer = vertexBufferGPU
          /\ renderPass.vertexCount = vertexCount)

\* the second tick recorded its draw after a pointer-move callback and a
\* change of the display size
ResourcesImmutableWitness ==
  /\ tick = 2 /\ framePc = "submit" /\ renderPass # Null
  /\ uiEvents = 1 /\ displayChanges = 1

\* C22: the light position that packUniforms gives to the camera transform
\* has w = 0, the packed eye-space light has w = 0, and the vertex stage
\* takes its directional branch on the uploaded data.
LightIsDirectional ==
  packOut # Null =>
    /\ packOut.lightPosition[4] = 0
    /\ packOut.lightPositionEye[4] = 0
    /\ slots(packOut.data, 48, 51) = packOut.lightPositionEye
    /\ vertexStageLight(packOut.data) = "directional"

\* a light off every axis, seen by a camera that is not at the target
LightIsDirectionalWitness ==
  /\ packOut # Null
  /\ packIn.fs.lightX # 0 /\ packIn.fs.lightY # 0 /\ packIn.fs.lightZ # 0
  /\ packIn.fs.camX # 0 /\ packIn.fs.camZ # 0
  /\ \E i \in 49..51 : Finite(packOut.data[i]) /\ packOut.data[i] # 0

\* the number of vertices the interleaver was given, none when a sequence
\* is missing
interleavedVertices ==
  IF positionsArray.missing \/ normalsArray.missing THEN 0 ELSE Len(positionsArray.items)

\* the three floats an attribute at byte offset off reads for vertex i
attribute(data, layout, i, off) ==
  SubSeq(data, (i * layout.arrayStride + off) \div 4 + 1,
               (i * layout.arrayStride + off) \div 4 + 3)

\* C23: the interleaved data is a whole number of 6-float vertices and
\* vertexCount is that number; with the pipeline's stride and offsets the
\* two attributes of vertex i are position i and normal i; the vertex buffer
\* has the byte length of the data rounded up to a multiple of 4, and the
\* last vertex drawn ends inside it.
DrawStaysInVertexBuffer ==
  vertexBufferGPU # Null =>
    LET out == interleaved.out
        bytes == Len(out) * 4
    IN /\ Len(out) % 6 = 0
       /\ vertexCount * 6 = Len(out)
       /\ vertexCount = interleavedVertices
       /\ pipeline.arrayStride = 24 /\ pipeline.offsets = <<0, 12>>
       /\ \A i \in 0..(vertexCount - 1) :
            /\ attribute(out, pipeline, i, pipeline.offsets[1])
                 = [k \in 1..3 |-> ToFloat32(positionsArray.items[i + 1][k])]
            /\ attribute(out, pipeline, i, pipeline.offsets[2])
                 = [k \in 1..3 |-> ToFloat32(normalsArray.items[i + 1][k])]
       /\ vertexBufferGPU.size % 4 = 0
       /\ vertexBufferGPU.size >= bytes /\ vertexBufferGPU.size < bytes + 4
       /\ vertexCount * pipeline.arrayStride <= vertexBufferGPU.size
       /\ Len(out) = 0 => vertexCount = 0

\* a vertex buffer was built for two vertices
DrawStaysInVertexBufferWitness ==
  /\ vertexBufferGPU # Null /\ vertexCount = 2
  /\ vertexBufferGPU.size = 2 * 24

\* byte sizes a caller may request
requestSizes == 0..33 \cup {uniformFloats * 4}

\* C24: createUniformBuffer allocates the smallest multiple of 16 bytes that
\* is at least the requested size, 272 bytes for the 68 floats; every tick
\* writes the 272 bytes of its packed array at offset 0 of that buffer, and
\* the write ends inside the buffer.
UniformUploadFits ==
  /\ uniformBuffer # Null =>
       /\ \A n \in requestSizes :
            /\ createUniformBuffer(n).size % 16 = 0
            /\ createUniformBuffer(n).size >= n
            /\ createUniformBuffer(n).size < n + 16
       /\ uniformBuffer.size = 272
  /\ uniformData # Null =>
       /\ uniformBuffer # Null
       /\ uniformData.bufferOffset = 0
       /\ uniformData.bytes = 272
       /\ uniformData.bufferOffset + uniformData.bytes <= uniformBuffer.size

\* the second tick has uploaded its uniforms
UniformUploadFitsWitness ==
  /\ tick = 2 /\ framePc = "getCurrentViews"
  /\ uniformData # Null /\ uniformData.bytes = uniformBuffer.size

============================================================================
